---- MODULE Spec2Model ----
(***************************************************************************)
(* Model of the catalog structurer of AiAgent-PDFExtractor                 *)
(* (src/src/ai_analyzer.py): provider selection, the per-provider          *)
(* completion calls, completion parsing and the fallback chain.            *)
(*                                                                         *)
(* Texts are sequences of lexical symbols.  The structural symbols of JSON *)
(* and of a markdown fence are symbols of their own; every other symbol is *)
(* a word, which is string content when it stands between quotes.          *)
(***************************************************************************)
EXTENDS Integers, Sequences, FiniteSets, TLC

VARIABLES
    env,          \* the credential environment: variable name -> text
    use_vision,   \* UniversalAIAnalyzer.use_vision
    ai_provider,  \* UniversalAIAnalyzer.ai_provider
    pc,           \* "new" before __init__, "ready" after it, "returned" or
                  \* "raised" after a call; "parse"/"parsed" in the parser runs
    content,      \* the intermediate document of the last analyze_catalog call
    net,          \* what the network answered to the requests of the last call
    requests,     \* the requests the last call sent, in order
    result,       \* the document the last call returned (JNull if it raised)
    raised,       \* the exception the last call let escape ("" if it returned)
    parse_in,     \* input of the last _parse_ai_response application
    parse_out,    \* its result
    pdf,          \* the file at pdf_path: whether it exists, opens, its pages
    ex_pc,        \* position in extract_complete_content
    total_pages,  \* UniversalPDFExtractor.total_pages
    page_num,     \* the loop variable of extract_complete_content
    extracted,    \* the content extract_complete_content builds and returns
    readings,     \* what the libraries gave for the page processed last
    ex_raised,    \* the exception extract_complete_content let escape
    files,        \* the files written, in order
    tr_pc,        \* position in translate_to_language
    tr_lang,      \* its target_language
    tr_in,        \* the document it was given, as it was at the call
    tr_data,      \* that document as the call leaves it
    tr_net,       \* what the network answered to its request
    tr_out,       \* the document it returned
    tr_raised,    \* the exception it let escape
    cv_pc,        \* position in main and UniversalPDFConverter.convert
    language,     \* UniversalPDFConverter.language
    save_json,    \* the save_json argument of convert
    output_html,  \* the path of the HTML file
    structured,   \* the structured document of convert
    html,         \* what the HTML file written shows
    cv_raised,    \* the exception convert let escape
    exit_status,  \* the status main exits with, -1 while it runs
    use_ai,       \* UniversalPDFConverter.use_ai
    earlier,      \* an analyze_catalog call made before the last one
    procs,        \* the convert invocations running side by side
    disk          \* the page renders on disk: path -> what was saved last

analyzerVars == <<env, use_vision, ai_provider, pc, content, net, requests,
                  result, raised, parse_in, parse_out>>

extractorVars == <<pdf, ex_pc, total_pages, page_num, extracted, readings,
                   ex_raised>>

translatorVars == <<tr_pc, tr_lang, tr_in, tr_data, tr_net, tr_out, tr_raised>>

converterVars == <<cv_pc, language, save_json, output_html, structured, html,
                   cv_raised, exit_status, use_ai>>

\* the variables of the runs with several calls or several invocations
auxVars == <<earlier, procs, disk>>

\* the variables of the stages around the structurer
stageVars == <<extractorVars, files, translatorVars, converterVars>>

\* what the extractor leaves alone, the files apart
nonExtractorVars == <<analyzerVars, translatorVars, converterVars>>

vars == <<analyzerVars, stageVars, auxVars>>

-----------------------------------------------------------------------------
(* Lexical symbols *)

LBRACE == "{"
RBRACE == "}"
LBRACK == "["
RBRACK == "]"
COMMA  == ","
COLON  == ":"
QUOTE  == "\""
WS     == " "
FENCE  == "<fence>"   \* the three-backquote marker
LANG   == "json"
NULL   == "null"

-----------------------------------------------------------------------------
(* Python values: JSON documents and str-or-None *)

JNull       == [t |-> "null", s |-> <<>>, keys |-> <<>>, vals |-> <<>>]
JStr(s)     == [t |-> "str", s |-> s, keys |-> <<>>, vals |-> <<>>]
JArr(items) == [t |-> "arr", s |-> <<>>, keys |-> <<>>, vals |-> items]
JObj(k, v)  == [t |-> "obj", s |-> <<>>, keys |-> k, vals |-> v]
W(word)     == JStr(<<word>>)

PyNone      == [none |-> TRUE, s |-> <<>>]
PyStr(toks) == [none |-> FALSE, s |-> toks]

IndexOf(seq, x) ==
    IF \E i \in 1..Len(seq) : seq[i] = x
    THEN CHOOSE i \in 1..Len(seq) : seq[i] = x /\ \A j \in 1..(i-1) : seq[j] # x
    ELSE 0

HasKey(d, key) == d.t = "obj" /\ IndexOf(d.keys, <<key>>) # 0

\* dict.get(key, default)
Get(d, key, default) ==
    IF HasKey(d, key) THEN d.vals[IndexOf(d.keys, <<key>>)] ELSE default

\* d[key] = value for a dict under construction: a repeated key keeps its
\* first position and takes the last value
Put(keys, vals, k, v) ==
    IF IndexOf(keys, k) # 0
    THEN [keys |-> keys, vals |-> [vals EXCEPT ![IndexOf(keys, k)] = v]]
    ELSE [keys |-> Append(keys, k), vals |-> Append(vals, v)]

-----------------------------------------------------------------------------
(* str.strip, json.loads, re.sub *)

RECURSIVE SkipWs(_, _)
SkipWs(t, i) == IF i <= Len(t) /\ t[i] = WS THEN SkipWs(t, i + 1) ELSE i

RECURSIVE SkipWsBack(_, _)
SkipWsBack(t, i) == IF i >= 1 /\ t[i] = WS THEN SkipWsBack(t, i - 1) ELSE i

strip(t) == SubSeq(t, SkipWs(t, 1), SkipWsBack(t, Len(t)))

Fail == [ok |-> FALSE, val |-> JNull, pos |-> 0]
Ok(v, p) == [ok |-> TRUE, val |-> v, pos |-> p]

\* a string literal opening at i: up to the next quote
ParseString(t, i) ==
    IF \E j \in (i+1)..Len(t) : t[j] = QUOTE
    THEN LET j == CHOOSE j \in (i+1)..Len(t) :
                     t[j] = QUOTE /\ \A k \in (i+1)..(j-1) : t[k] # QUOTE
         IN  Ok(JStr(SubSeq(t, i + 1, j - 1)), j + 1)
    ELSE Fail

RECURSIVE ParseValue(_, _), ParseMembers(_, _, _, _), ParseElements(_, _, _)

ParseValue(t, i) ==
    IF i > Len(t) THEN Fail
    ELSE IF t[i] = QUOTE THEN ParseString(t, i)
    ELSE IF t[i] = NULL THEN Ok(JNull, i + 1)
    ELSE IF t[i] = LBRACE THEN
        LET j == SkipWs(t, i + 1) IN
        IF j <= Len(t) /\ t[j] = RBRACE THEN Ok(JObj(<<>>, <<>>), j + 1)
        ELSE ParseMembers(t, j, <<>>, <<>>)
    ELSE IF t[i] = LBRACK THEN
        LET j == SkipWs(t, i + 1) IN
        IF j <= Len(t) /\ t[j] = RBRACK THEN Ok(JArr(<<>>), j + 1)
        ELSE ParseElements(t, j, <<>>)
    ELSE Fail

\* at i a key must open; keys/vals are the members read so far
ParseMembers(t, i, keys, vals) ==
    IF i > Len(t) \/ t[i] # QUOTE THEN Fail
    ELSE LET k == ParseString(t, i) IN
    IF ~k.ok THEN Fail
    ELSE LET c == SkipWs(t, k.pos) IN
    IF c > Len(t) \/ t[c] # COLON THEN Fail
    ELSE LET v == ParseValue(t, SkipWs(t, c + 1)) IN
    IF ~v.ok THEN Fail
    ELSE LET e == SkipWs(t, v.pos)
             d == Put(keys, vals, k.val.s, v.val) IN
    IF e > Len(t) THEN Fail
    ELSE IF t[e] = RBRACE THEN Ok(JObj(d.keys, d.vals), e + 1)
    ELSE IF t[e] = COMMA THEN ParseMembers(t, SkipWs(t, e + 1), d.keys, d.vals)
    ELSE Fail

\* at i an element must start; items are the elements read so far
ParseElements(t, i, items) ==
    LET v == ParseValue(t, i) IN
    IF ~v.ok THEN Fail
    ELSE LET e == SkipWs(t, v.pos) IN
    IF e > Len(t) THEN Fail
    ELSE IF t[e] = RBRACK THEN Ok(JArr(Append(items, v.val)), e + 1)
    ELSE IF t[e] = COMMA THEN ParseElements(t, SkipWs(t, e + 1), Append(items, v.val))
    ELSE Fail

\* a parsed value must be followed by whitespace only
WholeText(t, v) == IF v.ok /\ SkipWs(t, v.pos) = Len(t) + 1 THEN v ELSE Fail

\* json.loads: one value, surrounded by whitespace only; ok = FALSE stands
\* for json.JSONDecodeError
json_loads(t) == WholeText(t, ParseValue(t, SkipWs(t, 1)))

\* re.sub of a comma, optional whitespace and the closer by the closer alone,
\* scanning from symbol i
RECURSIVE re_sub_from(_, _, _)
re_sub_from(t, closer, i) ==
    IF i > Len(t) THEN <<>>
    ELSE IF t[i] = COMMA /\ SkipWs(t, i + 1) <= Len(t) /\ t[SkipWs(t, i + 1)] = closer
    THEN <<closer>> \o re_sub_from(t, closer, SkipWs(t, i + 1) + 1)
    ELSE <<t[i]>> \o re_sub_from(t, closer, i + 1)

re_sub_trailing(t, closer) == re_sub_from(t, closer, 1)

-----------------------------------------------------------------------------
(* Fixed documents *)

Dict(pairs) ==
    JObj([i \in 1..Len(pairs) |-> <<pairs[i][1]>>],
         [i \in 1..Len(pairs) |-> pairs[i][2]])

EmptyDict == JObj(<<>>, <<>>)
EmptyList == JArr(<<>>)

\* the document _parse_ai_response returns when both parses fail
ExtractionErrorDoc ==
    Dict(<< <<"product_family", W("Extraction Error")>>,
            <<"category", W("AI Response Invalid")>>,
            <<"company", EmptyDict>>,
            <<"products", EmptyList>> >>)

\* the document _parse_ai_response returns on any other exception
GeneralDoc ==
    Dict(<< <<"product_family", W("Product Catalog")>>,
            <<"category", W("General")>>,
            <<"company", EmptyDict>>,
            <<"products", EmptyList>> >>)

_no_ai_configured ==
    Dict(<< <<"product_family", W("AI Configuration Required")>>,
            <<"category", W("Please Add API Key")>>,
            <<"company", Dict(<< <<"name", W("Configure AI to extract company info")>>,
                                 <<"website", JStr(<<>>)>>,
                                 <<"phone", JStr(<<>>)>> >>)>>,
            <<"products", JArr(<< Dict(<<
                <<"name", W("AI API Key Required")>>,
                <<"model", W("N/A")>>,
                <<"tagline", W("Add API key to .env file to enable extraction")>>,
                <<"description", W("This system uses AI to intelligently extract product information from ANY catalog. Please configure an AI provider by adding your API key to the .env file in the config folder.")>>,
                <<"features", JArr(<<W("Real-time AI extraction"),
                                     W("Works with any PDF type"),
                                     W("98%+ accuracy with proper AI")>>)>>,
                <<"specifications", EmptyDict>>,
                <<"applications", EmptyList>>,
                <<"pricing", Dict(<< <<"price", W("Configure AI")>>,
                                     <<"currency", W("USD")>> >>)>> >>) >>)>> >>)

\* the document the Hugging Face path returns on status 200
HuggingFaceDoc(description) ==
    Dict(<< <<"product_family", W("Product Catalog")>>,
            <<"category", W("Products")>>,
            <<"company", EmptyDict>>,
            <<"products", JArr(<< Dict(<<
                <<"name", W("See extracted data")>>,
                <<"model", W("Hugging Face extraction")>>,
                <<"description", description>>,
                <<"features", EmptyList>>,
                <<"specifications", EmptyDict>>,
                <<"applications", EmptyList>>,
                <<"pricing", Dict(<< <<"price", W("See catalog")>>,
                                     <<"currency", W("USD")>> >>)>> >>) >>)>> >>)

-----------------------------------------------------------------------------
(* UniversalAIAnalyzer._parse_ai_response *)

\* the run of _parse_ai_response on a str-or-None: the document returned,
\* the number of json.loads calls made and whether the repair was applied
\* lines 444-459: the handler of json.JSONDecodeError, given the result of
\* its json.loads
parse_repaired(second) ==
    IF second.ok
    THEN [doc |-> second.val, loads |-> 2, repaired |-> TRUE]
    ELSE [doc |-> ExtractionErrorDoc, loads |-> 2, repaired |-> TRUE]

\* lines 437-459, given the stripped text and the result of the first
\* json.loads
parse_strict(json_text, strict) ==
    IF strict.ok
    THEN [doc |-> strict.val, loads |-> 1, repaired |-> FALSE]
    ELSE parse_repaired(json_loads(
             re_sub_trailing(re_sub_trailing(json_text, RBRACE), RBRACK)))

parse_ai_response_run(response_text) ==
    IF response_text.none
    THEN [doc |-> GeneralDoc, loads |-> 0, repaired |-> FALSE]
    ELSE parse_strict(strip(response_text.s), json_loads(strip(response_text.s)))

_parse_ai_response(response_text) == parse_ai_response_run(response_text).doc

-----------------------------------------------------------------------------
(* Credentials and provider selection *)

EnvNames == {"OPENAI_API_KEY", "ANTHROPIC_API_KEY", "GOOGLE_API_KEY",
             "HUGGINGFACE_API_KEY", "DEEPSEEK_API_KEY"}

None == "none"
Providers == {"deepseek", "anthropic", "huggingface", "google", "openai"}

PREFIX_SK  == <<"s", "k", "-">>
PREFIX_ANT == <<"s", "k", "-", "a", "n", "t", "-">>
PREFIX_HF  == <<"h", "f", "_">>

\* the length a Hugging Face, Google or OpenAI key has to exceed
MinKeyLen == 20

startswith(s, prefix) ==
    Len(s) >= Len(prefix) /\ SubSeq(s, 1, Len(prefix)) = prefix

\* os.getenv(name, ''): an unset variable is the empty text
getenv(e, name) == e[name]

\* _detect_available_ai with the Google check put before the Hugging Face one
detect_google_before_huggingface(e) ==
    LET openai_key      == strip(getenv(e, "OPENAI_API_KEY"))
        anthropic_key   == strip(getenv(e, "ANTHROPIC_API_KEY"))
        google_key      == strip(getenv(e, "GOOGLE_API_KEY"))
        huggingface_key == strip(getenv(e, "HUGGINGFACE_API_KEY"))
        deepseek_key    == strip(getenv(e, "DEEPSEEK_API_KEY"))
    IN  IF deepseek_key # <<>> /\ startswith(deepseek_key, PREFIX_SK)
        THEN "deepseek"
        ELSE IF anthropic_key # <<>> /\ startswith(anthropic_key, PREFIX_ANT)
        THEN "anthropic"
        ELSE IF google_key # <<>> /\ Len(google_key) > MinKeyLen
        THEN "google"
        ELSE IF huggingface_key # <<>>
                /\ (startswith(huggingface_key, PREFIX_HF)
                    \/ Len(huggingface_key) > MinKeyLen)
        THEN "huggingface"
        ELSE IF openai_key # <<>> /\ startswith(openai_key, PREFIX_SK)
                /\ Len(openai_key) > MinKeyLen
        THEN "openai"
        ELSE "none"

_detect_available_ai(e) ==
    LET openai_key      == strip(getenv(e, "OPENAI_API_KEY"))
        anthropic_key   == strip(getenv(e, "ANTHROPIC_API_KEY"))
        google_key      == strip(getenv(e, "GOOGLE_API_KEY"))
        huggingface_key == strip(getenv(e, "HUGGINGFACE_API_KEY"))
        deepseek_key    == strip(getenv(e, "DEEPSEEK_API_KEY"))
    IN  IF deepseek_key # <<>> /\ startswith(deepseek_key, PREFIX_SK)
        THEN "deepseek"
        ELSE IF anthropic_key # <<>> /\ startswith(anthropic_key, PREFIX_ANT)
        THEN "anthropic"
        ELSE IF huggingface_key # <<>>
                /\ (startswith(huggingface_key, PREFIX_HF)
                    \/ Len(huggingface_key) > MinKeyLen)
        THEN "huggingface"
        ELSE IF google_key # <<>> /\ Len(google_key) > MinKeyLen
        THEN "google"
        ELSE IF openai_key # <<>> /\ startswith(openai_key, PREFIX_SK)
                /\ Len(openai_key) > MinKeyLen
        THEN "openai"
        ELSE None

-----------------------------------------------------------------------------
(* The intermediate document.  A page text is represented by its length in *)
(* characters: the structurer only concatenates and slices page texts.     *)

Min(a, b) == IF a < b THEN a ELSE b

RECURSIVE Digits(_)
Digits(n) == IF n < 10 THEN 1 ELSE 1 + Digits(n \div 10)

\* len("=== Page " + " ===\n"), the page number excluded
PageHeaderLen == 14
\* len("\n\n")
JoinLen == 2

\* len(self._combine_text(content)), over the pages from index i on;
\* first tells whether no text has been appended yet
RECURSIVE combine_text_from(_, _, _)
combine_text_from(pages, i, first) ==
    IF i > Len(pages) THEN 0
    ELSE IF pages[i].text > 0
    THEN (IF first THEN 0 ELSE JoinLen)
         + PageHeaderLen + Digits(pages[i].page_number) + pages[i].text
         + combine_text_from(pages, i + 1, FALSE)
    ELSE combine_text_from(pages, i + 1, first)

_combine_text(c) == combine_text_from(c.pages, 1, TRUE)

\* the paths of the images a vision request carries: of each of the first
\* ScanPages pages the first full-page image whose file exists, and of these
\* the first MaxImages
ScanPages == 5
MaxImages == 3

FirstFullPage(page) ==
    IF \E k \in 1..Len(page.images) :
           page.images[k].type = "full_page" /\ page.images[k].exists
    THEN <<(CHOOSE k \in 1..Len(page.images) :
               /\ page.images[k].type = "full_page" /\ page.images[k].exists
               /\ \A m \in 1..(k-1) :
                     ~(page.images[m].type = "full_page" /\ page.images[m].exists))>>
    ELSE <<>>

RECURSIVE images_to_analyze_from(_, _)
images_to_analyze_from(pages, i) ==
    IF i > Min(Len(pages), ScanPages) THEN <<>>
    ELSE LET k == FirstFullPage(pages[i]) IN
         (IF k = <<>> THEN <<>> ELSE <<pages[i].images[k[1]].path>>)
         \o images_to_analyze_from(pages, i + 1)

\* images_sent without the slice to the first MaxImages
images_sent_uncapped(c) == images_to_analyze_from(c.pages, 1)

images_sent(c) ==
    LET all == images_to_analyze_from(c.pages, 1)
    IN  SubSeq(all, 1, Min(Len(all), MaxImages))

-----------------------------------------------------------------------------
(* Provider calls.  A call returns [doc, exc, reqs]: the document returned *)
(* (exc = ""), or the exception that escapes (exc # ""), and the requests  *)
(* sent, in order.  answers[i] is what the network does to the i-th        *)
(* request.                                                                *)

\* characters of document text a request may carry
DeepSeekBudget      == 40000
DeepSeekRetryBudget == 20000
VisionBudget        == 15000
TextBudget          == 20000
HuggingFaceBudget   == 10000

\* what can happen to a request: the exceptions of the transport, a status
\* other than 200, a body that is no JSON, a body without the expected
\* fields, a completion that is null, a completion text
FailureKinds == {"timeout", "transport", "http_error", "not_json_body",
                 "bad_envelope", "null_content"}
Answer(kind, text) == [kind |-> kind, text |-> text]

Ret(doc, reqs)   == [doc |-> doc, exc |-> "", reqs |-> reqs]
Raise(exc, reqs) == [doc |-> JNull, exc |-> exc, reqs |-> reqs]

Request(provider, mode, budget, c, images) ==
    [provider |-> provider, mode |-> mode, budget |-> budget,
     text_chars |-> Min(_combine_text(c), budget), images |-> images]

\* self._analyze_with_advanced_rules: the class defines no such attribute,
\* so evaluating the call raises AttributeError
_analyze_with_advanced_rules(c, reqs) == Raise("AttributeError", reqs)

HasFenceLang(t) == \E i \in 1..(Len(t) - 1) : t[i] = FENCE /\ t[i + 1] = LANG
HasFence(t)     == \E i \in 1..Len(t) : t[i] = FENCE

FirstFenceAfter(t, i) ==
    IF \E j \in (i+1)..Len(t) : t[j] = FENCE
    THEN CHOOSE j \in (i+1)..Len(t) :
             t[j] = FENCE /\ \A k \in (i+1)..(j-1) : t[k] # FENCE
    ELSE 0

\* the fence removal of _analyze_with_deepseek: the interior of the first
\* fence opened with the language tag if the text holds one, else of the
\* first fence; the text itself when the fence is not closed
deepseek_strip_fence(t) ==
    IF HasFenceLang(t)
    THEN LET i == CHOOSE i \in 1..(Len(t) - 1) :
                      /\ t[i] = FENCE /\ t[i + 1] = LANG
                      /\ \A k \in 1..(i-1) : ~(t[k] = FENCE /\ t[k + 1] = LANG)
             j == FirstFenceAfter(t, i + 1)
         IN  IF j # 0 THEN strip(SubSeq(t, i + 2, j - 1)) ELSE t
    ELSE IF HasFence(t)
    THEN LET i == FirstFenceAfter(t, 0)
             j == FirstFenceAfter(t, i)
         IN  IF j # 0 THEN strip(SubSeq(t, i + 1, j - 1)) ELSE t
    ELSE t

\* lines 168-174 of _analyze_with_deepseek: len(parsed_data.get('products',
\* [])) raises on a document that is no dict or whose products are null,
\* which the handler of line 182 catches
deepseek_products(parsed_data, reqs) ==
    IF parsed_data.t # "obj" \/ Get(parsed_data, "products", EmptyList).t = "null"
    THEN Ret(_no_ai_configured, reqs)
    ELSE Ret(parsed_data, reqs)

\* lines 151-180 of _analyze_with_deepseek: what it makes of a response
deepseek_response(a, reqs) ==
    IF a.kind = "http_error" THEN Ret(_no_ai_configured, reqs)
    ELSE IF a.kind = "bad_envelope" THEN Ret(_no_ai_configured, reqs)
    ELSE IF a.kind \in {"not_json_body", "null_content"}
    THEN Ret(_no_ai_configured, reqs)      \* raised inside the try, caught at 182
    ELSE deepseek_products(
             _parse_ai_response(PyStr(deepseek_strip_fence(a.text))), reqs)

\* lines 143-186 of _analyze_with_deepseek, given the first request and the
\* request of the retry
deepseek_post(first, retry, answers) ==
    IF answers[1].kind = "timeout"
    THEN IF answers[2].kind \in {"timeout", "transport"}
         THEN Ret(_no_ai_configured, <<first, retry>>)
         ELSE deepseek_response(answers[2], <<first, retry>>)
    ELSE IF answers[1].kind = "transport"
    THEN Ret(_no_ai_configured, <<first>>)
    ELSE deepseek_response(answers[1], <<first>>)

_analyze_with_deepseek(c, answers) ==
    deepseek_post(Request("deepseek", "text", DeepSeekBudget, c, <<>>),
                  Request("deepseek", "text", DeepSeekRetryBudget, c, <<>>),
                  answers)

\* _analyze_with_gpt4_vision, _analyze_with_claude_vision and
\* _analyze_with_gemini_vision: one request with the images; every exception
\* goes to the handler, which calls _analyze_with_advanced_rules
sdk_call(c, reqs, a) ==
    IF a.kind \in {"timeout", "transport", "http_error", "not_json_body",
                   "bad_envelope"}
    THEN _analyze_with_advanced_rules(c, reqs)
    ELSE Ret(_parse_ai_response(IF a.kind = "null_content" THEN PyNone
                                ELSE PyStr(a.text)), reqs)

vision_call(provider, c, answers) ==
    sdk_call(c, <<Request(provider, "vision", VisionBudget, c, images_sent(c))>>,
             answers[1])

_analyze_with_gpt4_vision(c, answers)   == vision_call("openai", c, answers)
_analyze_with_claude_vision(c, answers) == vision_call("anthropic", c, answers)
_analyze_with_gemini_vision(c, answers) == vision_call("google", c, answers)

huggingface_post(reqs, a) ==
    IF a.kind \in {"timeout", "transport", "http_error", "not_json_body"}
    THEN Ret(_no_ai_configured, reqs)
    ELSE IF a.kind = "bad_envelope"
    THEN Ret(HuggingFaceDoc(W("AI analysis complete")), reqs)
    ELSE IF a.kind = "null_content"
    THEN Ret(HuggingFaceDoc(JNull), reqs)
    ELSE Ret(HuggingFaceDoc(JStr(a.text)), reqs)

_analyze_with_huggingface(c, answers) ==
    huggingface_post(<<Request("huggingface", "text", HuggingFaceBudget, c, <<>>)>>,
                     answers[1])

_analyze_with_vision_ai(self, c, answers) ==
    IF self.ai_provider = "deepseek" THEN _analyze_with_deepseek(c, answers)
    ELSE IF self.ai_provider = "openai" THEN _analyze_with_gpt4_vision(c, answers)
    ELSE IF self.ai_provider = "anthropic" THEN _analyze_with_claude_vision(c, answers)
    ELSE IF self.ai_provider = "google" THEN _analyze_with_gemini_vision(c, answers)
    ELSE IF self.ai_provider = "huggingface" THEN _analyze_with_huggingface(c, answers)
    ELSE Ret(_no_ai_configured, <<>>)

_analyze_with_text_ai(self, c, answers) ==
    IF self.ai_provider \in {"anthropic", "openai"}
    THEN sdk_call(c, <<Request(self.ai_provider, "text", TextBudget, c, <<>>)>>,
                  answers[1])
    ELSE IF self.ai_provider = "deepseek" THEN _analyze_with_deepseek(c, answers)
    ELSE IF self.ai_provider = "huggingface" THEN _analyze_with_huggingface(c, answers)
    ELSE Ret(_no_ai_configured, <<>>)

\* lines 73-78 of analyze_catalog: len(structured_data.get('products', []))
\* raises on a document that is no dict or whose products are null
found_products(r) ==
    IF r.exc # "" THEN r
    ELSE IF r.doc.t # "obj" THEN Raise("AttributeError", r.reqs)
    ELSE IF Get(r.doc, "products", EmptyList).t = "null"
    THEN Raise("TypeError", r.reqs)
    ELSE r

analyze_catalog(self, c, answers) ==
    found_products(
        IF self.ai_provider # None /\ self.use_vision
        THEN _analyze_with_vision_ai(self, c, answers)
        ELSE IF self.ai_provider # None
        THEN _analyze_with_text_ai(self, c, answers)
        ELSE _analyze_with_advanced_rules(c, <<>>))

-----------------------------------------------------------------------------
(* AITranslator.  A call returns [doc, exc, data]: the document returned,  *)
(* the exception that escapes, and the caller's document as the call       *)
(* leaves it.                                                              *)

JBool(b) == [t |-> IF b THEN "true" ELSE "false", s |-> <<>>,
             keys |-> <<>>, vals |-> <<>>]

TrRet(doc, data)   == [doc |-> doc, exc |-> "", data |-> data]
TrRaise(exc, data) == [doc |-> JNull, exc |-> exc, data |-> data]

\* d['_rtl'] = rtl; d['_language'] = code
set_tags(d, rtl, code) ==
    JObj(Put(Put(d.keys, d.vals, <<"_rtl">>, JBool(rtl)).keys,
             Put(d.keys, d.vals, <<"_rtl">>, JBool(rtl)).vals,
             <<"_language">>, W(code)).keys,
         Put(Put(d.keys, d.vals, <<"_rtl">>, JBool(rtl)).keys,
             Put(d.keys, d.vals, <<"_rtl">>, JBool(rtl)).vals,
             <<"_language">>, W(code)).vals)

tagged(d, lang) ==
    IF lang = "persian" THEN set_tags(d, TRUE, "fa") ELSE set_tags(d, FALSE, "zh")

LastFence(t) ==
    IF HasFence(t)
    THEN CHOOSE j \in 1..Len(t) : t[j] = FENCE /\ \A k \in (j+1)..Len(t) : t[k] # FENCE
    ELSE 0

\* lines 90-98: the interior from the first opening fence, with the language
\* tag if the text holds one, to the last fence of the text; the text
\* itself when no fence follows the opening one
translator_strip_fence(t) ==
    IF HasFenceLang(t)
    THEN LET i == CHOOSE i \in 1..(Len(t) - 1) :
                      /\ t[i] = FENCE /\ t[i + 1] = LANG
                      /\ \A k \in 1..(i-1) : ~(t[k] = FENCE /\ t[k + 1] = LANG)
         IN  IF LastFence(t) > i + 1
             THEN strip(SubSeq(t, i + 2, LastFence(t) - 1)) ELSE t
    ELSE IF HasFence(t)
    THEN IF LastFence(t) > FirstFenceAfter(t, 0)
         THEN strip(SubSeq(t, FirstFenceAfter(t, 0) + 1, LastFence(t) - 1))
         ELSE t
    ELSE t

\* the failure paths re-raising instead of returning the tagged document
translation_failed_reraise(data, lang) == TrRaise("Exception", data)

\* lines 107-116: data['_rtl'], data['_language'] are set on the document
\* given and that document is returned; the assignment raises when the
\* document is no dict
translation_failed(data, lang) ==
    IF data.t = "obj"
    THEN TrRet(tagged(data, lang), tagged(data, lang))
    ELSE TrRaise("TypeError", data)

\* lines 100-105: the tags are set on what json.loads gave, which raises,
\* into the handler of line 112, when that is no dict
translation_parsed(parsed, data, lang) ==
    IF parsed.ok /\ parsed.val.t = "obj"
    THEN TrRet(tagged(parsed.val, lang), data)
    ELSE translation_failed(data, lang)

\* _translate_to_persian and _translate_to_chinese, given the answer to the
\* request
_translate(data, lang, a) ==
    IF a.kind # "ok"
    THEN translation_failed(data, lang)
    ELSE translation_parsed(json_loads(translator_strip_fence(strip(a.text))),
                            data, lang)

_translate_to_persian(data, a) == _translate(data, "persian", a)
_translate_to_chinese(data, a) == _translate(data, "chinese", a)

translate_to_language(data, target_language, a) ==
    IF target_language = "persian" THEN _translate_to_persian(data, a)
    ELSE IF target_language = "chinese" THEN _translate_to_chinese(data, a)
    ELSE TrRet(data, data)

-----------------------------------------------------------------------------
(* Inputs *)

\* bounds of the model
MaxPages   == 2     \* pages of an intermediate document
MaxVisionPages == 6 \* pages of a document of the vision runs
MaxInserts == 2     \* symbols inserted into a base text of the parser inputs
PadShort   == 1     \* characters after the prefix of a short key

RECURSIVE Pad(_)
Pad(n) == IF n <= 0 THEN <<>> ELSE <<"x">> \o Pad(n - 1)

\* a key of more than MinKeyLen characters that opens with PREFIX_SK
LongSkKey == PREFIX_SK \o Pad(MinKeyLen + 1 - Len(PREFIX_SK))

\* the texts a credential variable may hold: unset or empty, blank, a short
\* and a long key opening with PREFIX_SK, short keys of the other prefixes,
\* and keys without prefix of MinKeyLen and MinKeyLen + 1 characters, the
\* latter with blanks around it
KeyTexts ==
    { <<>>, <<WS>>,
      PREFIX_SK \o Pad(PadShort),
      LongSkKey,
      PREFIX_ANT \o Pad(PadShort),
      PREFIX_HF \o Pad(PadShort),
      Pad(MinKeyLen),
      <<WS>> \o Pad(MinKeyLen + 1) \o <<WS>> }

AllEnvs == [EnvNames -> KeyTexts]

\* a key the provider of the variable accepts
GoodKey(name) ==
    IF name = "DEEPSEEK_API_KEY" THEN PREFIX_SK \o Pad(PadShort)
    ELSE IF name = "ANTHROPIC_API_KEY" THEN PREFIX_ANT \o Pad(PadShort)
    ELSE IF name = "HUGGINGFACE_API_KEY" THEN PREFIX_HF \o Pad(PadShort)
    ELSE IF name = "GOOGLE_API_KEY" THEN <<WS>> \o Pad(MinKeyLen + 1) \o <<WS>>
    ELSE LongSkKey

\* the environments of the structurer runs: each variable unset or holding
\* a key its provider accepts
RunEnvs ==
    { [name \in EnvNames |-> IF name \in set THEN GoodKey(name) ELSE <<>>] :
        set \in SUBSET EnvNames }

\* page texts by length: none, and one that alone exceeds TextBudget and
\* twice exceeds DeepSeekBudget
PageTextLens == {0, 25000}

FullPageImage(n) ==
    [page |-> n, type |-> "full_page",
     path |-> <<"output/images/page_", ToString(n), "_full.png">>, exists |-> TRUE]

Page(n, text, image) ==
    [page_number |-> n, text |-> text,
     images |-> IF image THEN <<FullPageImage(n)>> ELSE <<>>]

Contents ==
    UNION { { [pages |-> [n \in 1..k |-> Page(n, tx[n], im[n])]] :
                tx \in [1..k -> PageTextLens], im \in [1..k -> BOOLEAN] } :
            k \in 0..MaxPages }

\* an image entry of a page: its type, the file it names, whether the file
\* exists
Image(n, type, tag, exists) ==
    [page |-> n, type |-> type,
     path |-> <<"output/images/page_", ToString(n), tag>>, exists |-> exists]

\* the image lists a page of the vision runs may carry: none, the render of
\* the page, an embedded image and a render whose file is gone before the
\* render, two renders
PageImages(n) ==
    { <<>>,
      <<FullPageImage(n)>>,
      <<Image(n, "embedded", "_img1.png", TRUE),
        Image(n, "full_page", "_gone.png", FALSE),
        FullPageImage(n)>>,
      <<FullPageImage(n), Image(n, "full_page", "_alt.png", TRUE)>> }

\* the page sequences of k pages
RECURSIVE VisionPages(_)
VisionPages(k) ==
    IF k = 0 THEN { <<>> }
    ELSE { Append(pages, [page_number |-> k, text |-> 0, images |-> im]) :
             pages \in VisionPages(k - 1), im \in PageImages(k) }

VisionContents ==
    UNION { { [pages |-> pages] : pages \in VisionPages(k) } :
            k \in 0..MaxVisionPages }

\* completion texts
S(word) == <<QUOTE, word, QUOTE>>

ObjText ==
    <<LBRACE>> \o S("product_family") \o <<COLON>> \o S("X") \o <<COMMA>>
    \o S("products") \o <<COLON, LBRACK, RBRACK, RBRACE>>

\* a text with a comma put before its last symbol
WithTrailingComma(t) == SubSeq(t, 1, Len(t) - 1) \o <<COMMA, t[Len(t)]>>

\* an object whose string value ends in comma and brace
CommaBraceValueText ==
    <<LBRACE>> \o S("product_family")
    \o <<COLON, QUOTE, "X", COMMA, RBRACE, QUOTE, RBRACE>>

\* an array whose string element is comma and bracket
CommaBracketValueText == <<LBRACK, QUOTE, COMMA, RBRACK, QUOTE, RBRACK>>

NullProductsText == <<LBRACE>> \o S("products") \o <<COLON, NULL, RBRACE>>

NestedText ==
    <<LBRACE>> \o S("a") \o <<COLON, LBRACK, LBRACE, RBRACE, RBRACK, RBRACE>>

\* a catalog of one product
OneProductText ==
    <<LBRACE>> \o S("products") \o <<COLON, LBRACK, LBRACE>>
    \o S("name") \o <<COLON>> \o S("P") \o <<COMMA>>
    \o S("model") \o <<COLON>> \o S("M")
    \o <<RBRACE, RBRACK, RBRACE>>

Completions ==
    { ObjText,
      <<FENCE, LANG, WS>> \o ObjText \o <<WS, FENCE>>,
      <<FENCE, WS>> \o ObjText \o <<WS, FENCE>>,
      <<"Here", WS, FENCE, LANG, WS>> \o WithTrailingComma(ObjText) \o <<WS, FENCE>>,
      WithTrailingComma(ObjText),
      WithTrailingComma(CommaBraceValueText),
      <<"sorry">>,
      <<FENCE, LANG, WS, "sorry", WS, FENCE>>,
      <<LBRACK, RBRACK>>,
      NullProductsText,
      OneProductText,
      <<>> }

Answers ==
    { Answer(kind, <<>>) : kind \in FailureKinds }
    \cup { Answer("ok", text) : text \in Completions }

\* the inputs of the parser runs: the base texts with up to MaxInserts
\* commas or blanks inserted anywhere, and None
BaseTexts ==
    { ObjText, CommaBraceValueText, CommaBracketValueText, NullProductsText,
      NestedText, <<"sorry">> }

InsertAt(t, i, x) == SubSeq(t, 1, i) \o <<x>> \o SubSeq(t, i + 1, Len(t))

RECURSIVE WithInserts(_)
WithInserts(n) ==
    IF n = 0 THEN BaseTexts
    ELSE LET prev == WithInserts(n - 1)
         IN  prev \cup UNION { { InsertAt(t, i, x) :
                                   i \in 0..Len(t), x \in {COMMA, WS} } :
                               t \in prev }

ParseInputs == {PyNone} \cup { PyStr(t) : t \in WithInserts(MaxInserts) }

-----------------------------------------------------------------------------
(* The content extractor.  A page of the file is what the two libraries     *)
(* give for it: the two text passes, the table pass, whether the render,    *)
(* the layout and the text blocks can be had.  A pass gives a value, None,  *)
(* or raises.                                                               *)

Reading(val) == [raises |-> FALSE, none |-> FALSE, val |-> val]
ReadNone     == [raises |-> FALSE, none |-> TRUE,  val |-> <<>>]
ReadRaises   == [raises |-> TRUE,  none |-> FALSE, val |-> <<>>]

\* x or "", x or []
or_empty(r) == IF r.none THEN <<>> ELSE r.val

\* the choice of line 108 with the comparison turned round
shorter_text(text_plumber, text_pymupdf) ==
    IF Len(text_plumber) < Len(text_pymupdf) THEN text_plumber ELSE text_pymupdf

\* line 108: text_plumber if len(text_plumber) > len(text_pymupdf) else
\* text_pymupdf
longer_text(text_plumber, text_pymupdf) ==
    IF Len(text_plumber) > Len(text_pymupdf) THEN text_plumber ELSE text_pymupdf

\* line 125 without the images
has_content_without_images(text, tables, images) ==
    Len(text) > 0 \/ Len(tables) > 0

\* line 125
has_content(text, tables, images) ==
    Len(text) > 0 \/ Len(tables) > 0 \/ Len(images) > 0

\* the render is saved and listed, or the failure is caught and the list
\* stays empty
_extract_images_pymupdf(render, n) ==
    IF render THEN <<FullPageImage(n + 1)>> ELSE <<>>

_analyze_layout(geometry) ==
    IF geometry = "layout_fails" THEN "error" ELSE "layout"

_extract_text_blocks(geometry) ==
    IF geometry = "blocks_fail" THEN <<>> ELSE <<"block">>

\* lines 106-110 have no handler: a text pass or the table pass that raises
\* ends _extract_page_multimethod with that exception
page_raises(rd) ==
    rd.text_plumber.raises \/ rd.text_pymupdf.raises \/ rd.tables.raises

page_dict(n, text, tables, images, layout, text_blocks) ==
    [page_number |-> n + 1,
     text |-> text, text_length |-> Len(text),
     tables |-> tables, table_count |-> Len(tables),
     images |-> images, image_count |-> Len(images),
     layout |-> layout, text_blocks |-> text_blocks,
     has_content |-> has_content(text, tables, images)]

_extract_page_multimethod(rd, n) ==
    page_dict(n,
              longer_text(or_empty(rd.text_plumber), or_empty(rd.text_pymupdf)),
              or_empty(rd.tables),
              _extract_images_pymupdf(rd.render, n),
              _analyze_layout(rd.geometry),
              _extract_text_blocks(rd.geometry))

\* bound: pages of a file
MaxPdfPages == 2

\* what the passes may give for a page
PlumberTexts == { ReadNone, Reading(<<"a">>), Reading(<<"a", "b">>), ReadRaises }
PymupdfTexts == { Reading(<<>>), Reading(<<"c">>), ReadRaises }
TableReads   == { ReadNone, Reading(<<"table">>), ReadRaises }
Geometries   == { "ok", "layout_fails", "blocks_fail" }

PageReadings ==
    [text_plumber : PlumberTexts, text_pymupdf : PymupdfTexts,
     tables : TableReads, render : BOOLEAN, geometry : Geometries]

\* the pages of the files of the converter runs: a page with text and
\* render, a blank page without render, a page whose text pass raises
PlainReadings ==
    { [text_plumber |-> Reading(<<"a", "b">>), text_pymupdf |-> Reading(<<"c">>),
       tables |-> ReadNone, render |-> TRUE, geometry |-> "ok"],
      [text_plumber |-> ReadNone, text_pymupdf |-> Reading(<<>>),
       tables |-> ReadNone, render |-> FALSE, geometry |-> "ok"],
      [text_plumber |-> ReadRaises, text_pymupdf |-> Reading(<<"c">>),
       tables |-> ReadNone, render |-> TRUE, geometry |-> "ok"] }

\* what the pages of a file may give
ReadingsOf(file) == IF file.plain THEN PlainReadings ELSE PageReadings

NoReadings ==
    [text_plumber |-> ReadNone, text_pymupdf |-> Reading(<<>>),
     tables |-> ReadNone, render |-> FALSE, geometry |-> "ok"]

\* the files a run may be given: none at the path, one that does not open,
\* one of 1..MaxPdfPages pages
PdfsOf(plain) ==
    { [exists |-> FALSE, opens |-> FALSE, pages |-> 0, plain |-> plain],
      [exists |-> TRUE,  opens |-> FALSE, pages |-> 0, plain |-> plain] }
    \cup { [exists |-> TRUE, opens |-> TRUE, pages |-> n, plain |-> plain] :
             n \in 1..MaxPdfPages }

Pdfs == PdfsOf(FALSE)

NoPdf == [exists |-> FALSE, opens |-> FALSE, pages |-> 0, plain |-> FALSE]

NoContent == [total_pages |-> 0, pages |-> <<>>]

\* the translated catalog a completion holds
TranslatedText ==
    <<LBRACE>> \o S("product_family") \o <<COLON>> \o S("Y") \o <<COMMA>>
    \o S("products") \o <<COLON, LBRACK, RBRACK, RBRACE>>

\* the completions of a translation request: the catalog bare, fenced with
\* and without the language tag, fenced with prose around it, with a second
\* fenced block after it, with a trailing comma, with an unclosed fence; a
\* refusal, an array, a string, null, nothing
TranslationCompletions ==
    { TranslatedText,
      <<FENCE, LANG, WS>> \o TranslatedText \o <<WS, FENCE>>,
      <<FENCE, WS>> \o TranslatedText \o <<WS, FENCE>>,
      <<"Here", WS, FENCE, LANG, WS>> \o TranslatedText \o <<WS, FENCE, WS, "Done">>,
      <<FENCE, LANG, WS>> \o TranslatedText \o <<WS, FENCE, WS, FENCE, "x", FENCE>>,
      WithTrailingComma(TranslatedText),
      <<FENCE, LANG, WS>> \o TranslatedText,
      <<"sorry">>,
      <<LBRACK, RBRACK>>,
      S("Y"),
      <<NULL>>,
      <<>> }

TranslationAnswers ==
    { Answer(kind, <<>>) : kind \in FailureKinds }
    \cup { Answer("ok", text) : text \in TranslationCompletions }

\* the documents a translation is asked for: what analyze_catalog returns
TranslateDocs ==
    { _no_ai_configured, ExtractionErrorDoc, HuggingFaceDoc(W("summary")),
      json_loads(OneProductText).val }

Languages == {"english", "persian", "chinese"}

TranslatorIdle ==
    /\ tr_pc = "idle"
    /\ tr_lang = "english"
    /\ tr_in = JNull
    /\ tr_data = JNull
    /\ tr_net = <<>>
    /\ tr_out = JNull
    /\ tr_raised = ""

\* the state a translate_to_language call leaves
TranslateOutcome(lang, a, r) ==
    /\ tr_pc' = IF r.exc = "" THEN "returned" ELSE "raised"
    /\ tr_data' = r.data
    /\ tr_net' = IF lang \in {"persian", "chinese"} THEN <<a>> ELSE <<>>
    /\ tr_out' = r.doc
    /\ tr_raised' = r.exc

\* one translate_to_language call, from entry to return or raise
Translate ==
    /\ tr_pc = "called"
    /\ \E a \in TranslationAnswers :
         TranslateOutcome(tr_lang, a, translate_to_language(tr_in, tr_lang, a))
    /\ UNCHANGED <<tr_lang, tr_in, analyzerVars, extractorVars, files,
                   converterVars>>
    /\ UNCHANGED auxVars

\* no extractor at work
\* no earlier call, no invocation side by side, no render on disk
NoCall ==
    [made |-> FALSE, between |-> FALSE, env |-> [name \in EnvNames |-> <<>>],
     content |-> [pages |-> <<>>], requests |-> <<>>, net |-> <<>>,
     result |-> JNull, raised |-> ""]

AuxIdle ==
    /\ earlier = NoCall
    /\ procs = <<>>
    /\ disk = <<>>

ExtractorIdle ==
    /\ ex_pc = "idle"
    /\ total_pages = 0
    /\ page_num = 0
    /\ extracted = NoContent
    /\ readings = NoReadings
    /\ ex_raised = ""

\* no converter at work
ConverterIdle ==
    /\ cv_pc = "idle"
    /\ language = "english"
    /\ save_json = TRUE
    /\ output_html = <<>>
    /\ structured = JNull
    /\ html = JNull
    /\ cv_raised = ""
    /\ exit_status = -1
    /\ use_ai = TRUE

StagesIdle ==
    /\ pdf = NoPdf
    /\ ExtractorIdle
    /\ files = <<>>
    /\ TranslatorIdle
    /\ ConverterIdle

\* extract_complete_content up to the loop: the metadata (whose failure is
\* caught), the two opens, the page count
ExtractOpen ==
    /\ ex_pc = "called"
    /\ IF ~pdf.exists
       THEN /\ ex_pc' = "raised"
            /\ ex_raised' = "FileNotFoundError"
            /\ UNCHANGED <<total_pages, extracted>>
       ELSE IF ~pdf.opens
       THEN /\ ex_pc' = "raised"
            /\ ex_raised' = "PDFSyntaxError"
            /\ UNCHANGED <<total_pages, extracted>>
       ELSE /\ ex_pc' = "loop"
            /\ total_pages' = pdf.pages
            /\ extracted' = [total_pages |-> pdf.pages, pages |-> <<>>]
            /\ UNCHANGED ex_raised
    /\ UNCHANGED <<pdf, page_num, readings, files, nonExtractorVars>>
    /\ UNCHANGED auxVars

\* one turn of the loop of lines 63-73
ExtractPage ==
    /\ ex_pc = "loop"
    /\ page_num < total_pages
    /\ \E rd \in ReadingsOf(pdf) :
         /\ readings' = rd
         /\ IF page_raises(rd)
            THEN /\ ex_pc' = "raised"
                 /\ ex_raised' = "PageError"
                 /\ UNCHANGED <<page_num, extracted>>
            ELSE /\ extracted' =
                      [extracted EXCEPT !.pages =
                          Append(@, _extract_page_multimethod(rd, page_num))]
                 /\ page_num' = page_num + 1
                 /\ UNCHANGED <<ex_pc, ex_raised>>
         \* pix.save(img_path), reached when the passes before it returned
         /\ files' = IF ~page_raises(rd) /\ rd.render
                     THEN Append(files, FullPageImage(page_num + 1).path)
                     ELSE files
    /\ UNCHANGED <<pdf, total_pages, nonExtractorVars>>
    /\ UNCHANGED auxVars

\* the loop is over: the files are closed and the content returned
ExtractReturn ==
    /\ ex_pc = "loop"
    /\ page_num = total_pages
    /\ ex_pc' = "returned"
    /\ UNCHANGED <<pdf, total_pages, page_num, extracted, readings, ex_raised,
                   files, nonExtractorVars>>
    /\ UNCHANGED auxVars

-----------------------------------------------------------------------------
(* The state machine *)

EmptyContent == [pages |-> <<>>]
NoRun == [doc |-> JNull, loads |-> 0, repaired |-> FALSE]

\* no call in progress or finished
Idle ==
    /\ content = EmptyContent
    /\ net = <<>>
    /\ requests = <<>>
    /\ result = JNull
    /\ raised = ""

\* before UniversalAIAnalyzer(use_vision) is constructed
Init ==
    /\ pc = "new"
    /\ env \in RunEnvs
    /\ use_vision \in BOOLEAN
    /\ ai_provider = None
    /\ Idle
    /\ parse_in = PyNone
    /\ parse_out = NoRun
    /\ StagesIdle
    /\ AuxIdle

\* UniversalAIAnalyzer.__init__
Construct ==
    /\ pc = "new"
    /\ ai_provider' = _detect_available_ai(env)
    /\ pc' = "ready"
    /\ UNCHANGED <<env, use_vision, content, net, requests, result, raised,
                   parse_in, parse_out, stageVars>>
    /\ UNCHANGED auxVars

\* an analyzer that picks its provider again at every call
self_redetected ==
    [ai_provider |-> _detect_available_ai(env), use_vision |-> use_vision]

self == [ai_provider |-> ai_provider, use_vision |-> use_vision]

\* the state a call leaves: the document or the exception, and the requests
\* sent with the answers they got
Outcome(c, answers, r) ==
    /\ content' = c
    /\ net' = SubSeq(answers, 1, Len(r.reqs))
    /\ requests' = r.reqs
    /\ result' = r.doc
    /\ raised' = r.exc
    /\ pc' = IF r.exc = "" THEN "returned" ELSE "raised"

\* one analyze_catalog call, from entry to return or raise.  The Hugging
\* Face request (line 481) sets no timeout, so it never times out.
AnalyzeCatalog ==
    /\ pc = "ready"
    /\ \E c \in Contents, a1 \in Answers :
         /\ ~(ai_provider = "huggingface" /\ a1.kind = "timeout")
         /\ \E a2 \in (IF a1.kind = "timeout" THEN Answers ELSE {a1}) :
               Outcome(c, <<a1, a2>>, analyze_catalog(self, c, <<a1, a2>>))
    /\ UNCHANGED <<env, use_vision, ai_provider, parse_in, parse_out, stageVars>>
    /\ UNCHANGED auxVars

\* the caller takes the outcome; the analyzer is ready for the next call
Collect ==
    /\ pc \in {"returned", "raised"}
    /\ pc' = "ready"
    /\ content' = EmptyContent
    /\ net' = <<>>
    /\ requests' = <<>>
    /\ result' = JNull
    /\ raised' = ""
    /\ UNCHANGED <<env, use_vision, ai_provider, parse_in, parse_out, stageVars>>
    /\ UNCHANGED auxVars

Next == Construct \/ AnalyzeCatalog \/ Collect

\* the calls of a session: one analyzer called again and again while the
\* environment changes around it
SessionContents == { [pages |-> <<>>], [pages |-> <<Page(1, 25000, TRUE)>>] }

SessionAnswers ==
    { Answer("timeout", <<>>), Answer("ok", ObjText), Answer("ok", <<"sorry">>) }

\* the environments of a session: no credential, or one
SessionEnvs ==
    { [name \in EnvNames |-> IF name \in set THEN GoodKey(name) ELSE <<>>] :
        set \in { {} } \cup { {name} : name \in EnvNames } }

SessionAnalyze ==
    /\ pc = "ready"
    /\ \E c \in SessionContents, a1 \in SessionAnswers :
         /\ ~(ai_provider = "huggingface" /\ a1.kind = "timeout")
         /\ \E a2 \in (IF a1.kind = "timeout" THEN SessionAnswers ELSE {a1}) :
               Outcome(c, <<a1, a2>>, analyze_catalog(self, c, <<a1, a2>>))
    /\ UNCHANGED <<env, use_vision, ai_provider, parse_in, parse_out, stageVars>>
    /\ UNCHANGED auxVars

\* the call that just finished, as a later call may be compared with it
ThisCall ==
    [made |-> TRUE, between |-> FALSE, env |-> env, content |-> content,
     requests |-> requests, net |-> net, result |-> result, raised |-> raised]

\* the earlier call kept for comparison, another call having been made since
Kept == IF earlier.made THEN [earlier EXCEPT !.between = TRUE] ELSE earlier

\* a caller whose analyzer loses its provider once a call is over
SessionCollect_forgetting ==
    /\ pc \in {"returned", "raised"}
    /\ pc' = "ready"
    /\ ai_provider' = None
    /\ content' = EmptyContent
    /\ net' = <<>>
    /\ requests' = <<>>
    /\ result' = JNull
    /\ raised' = ""
    /\ earlier' \in {Kept, ThisCall}
    /\ UNCHANGED <<env, use_vision, parse_in, parse_out, stageVars, procs, disk>>

\* the caller takes the outcome; the call is kept for comparison or not
SessionCollect ==
    /\ pc \in {"returned", "raised"}
    /\ pc' = "ready"
    /\ content' = EmptyContent
    /\ net' = <<>>
    /\ requests' = <<>>
    /\ result' = JNull
    /\ raised' = ""
    /\ earlier' \in {Kept, ThisCall}
    /\ UNCHANGED <<env, use_vision, ai_provider, parse_in, parse_out, stageVars,
                   procs, disk>>

\* the credentials change between two calls: the process environment is
\* read again at each request (lines 120, 192, 245, 296, 352, 361, 477)
ChangeEnv ==
    /\ pc = "ready"
    /\ env' \in SessionEnvs \ {env}
    /\ UNCHANGED <<use_vision, ai_provider, pc, content, net, requests, result,
                   raised, parse_in, parse_out, stageVars>>
    /\ UNCHANGED auxVars

InitSession ==
    /\ pc = "new"
    /\ env \in SessionEnvs
    /\ use_vision \in BOOLEAN
    /\ ai_provider = None
    /\ Idle
    /\ parse_in = PyNone
    /\ parse_out = NoRun
    /\ StagesIdle
    /\ AuxIdle

NextSession == Construct \/ SessionAnalyze \/ SessionCollect \/ ChangeEnv

SpecSession == InitSession /\ [][NextSession]_vars

Spec == Init /\ [][Next]_vars

-----------------------------------------------------------------------------
(* main and UniversalPDFConverter.convert *)

\* str.replace(old, new) on a path, given from its i-th part on
RECURSIVE replace_from(_, _, _, _)
replace_from(path, old, new, i) ==
    IF i > Len(path) THEN <<>>
    ELSE <<(IF path[i] = old THEN new ELSE path[i])>>
         \o replace_from(path, old, new, i + 1)

replace(path, old, new) == replace_from(path, old, new, 1)

\* lines 71-75: the name made from the base name of the PDF
AutoOutput == <<"catalog", "_shopping_card", ".html">>

extract_path(out) == replace(out, ".html", "_extracted.json")
struct_path(out)  == replace(out, ".html", "_data.json")

\* the intermediate document as the structurer reads it: of each page the
\* number, the length of the text and the images
as_content(ex) ==
    [pages |-> [n \in 1..Len(ex.pages) |->
                  [page_number |-> ex.pages[n].page_number,
                   text |-> ex.pages[n].text_length,
                   images |-> ex.pages[n].images]]]

\* HTMLGenerator.generate: what the template is given to show
render(doc) ==
    Dict(<< <<"product_family", Get(doc, "product_family", W("Product Catalog"))>>,
            <<"category", Get(doc, "category", W("Products"))>>,
            <<"products", Get(doc, "products", EmptyList)>> >>)

\* the template iterates over the products
render_raises(doc) == Get(doc, "products", EmptyList).t = "null"

\* the answers of the converter runs
ConvertAnswers ==
    { Answer("timeout", <<>>), Answer("http_error", <<>>),
      Answer("ok", ObjText), Answer("ok", OneProductText),
      Answer("ok", <<"sorry">>), Answer("ok", <<LBRACK, RBRACK>>) }

ConvertTranslationAnswers ==
    { Answer("transport", <<>>), Answer("ok", TranslatedText),
      Answer("ok", <<"sorry">>) }

\* the environments of the converter runs: no credential, or one
ConvertEnvs ==
    { [name \in EnvNames |-> IF name \in set THEN GoodKey(name) ELSE <<>>] :
        set \in { {} } \cup { {name} : name \in EnvNames } }

\* main, line 205, and __init__, lines 38-44: the analyzer is constructed
MainConstruct ==
    /\ cv_pc = "new"
    /\ cv_pc' = "constructed"
    /\ ai_provider' = _detect_available_ai(env)
    /\ pc' = "ready"
    /\ UNCHANGED <<env, use_vision, content, net, requests, result, raised,
                   parse_in, parse_out, extractorVars, files, translatorVars,
                   language, save_json, output_html, structured, html,
                   cv_raised, exit_status, use_ai>>
    /\ UNCHANGED auxVars

\* convert without the test of lines 68-69
ConvertUnchecked ==
    /\ cv_pc = "constructed"
    /\ cv_pc' = "extract"
    /\ ex_pc' = "called"
    /\ UNCHANGED <<cv_raised, analyzerVars, pdf, total_pages, page_num,
                   extracted, readings, ex_raised, files, translatorVars,
                   language, save_json, output_html, structured, html,
                   exit_status, use_ai>>
    /\ UNCHANGED auxVars

\* convert, lines 59-78: the path is tested, the output name made, the
\* extractor called
ConvertCheck ==
    /\ cv_pc = "constructed"
    /\ IF ~pdf.exists
       THEN /\ cv_pc' = "raised"
            /\ cv_raised' = "FileNotFoundError"
            /\ UNCHANGED ex_pc
       ELSE /\ cv_pc' = "extract"
            /\ ex_pc' = "called"
            /\ UNCHANGED cv_raised
    /\ UNCHANGED <<analyzerVars, pdf, total_pages, page_num, extracted,
                   readings, ex_raised, files, translatorVars, language,
                   save_json, output_html, structured, html, exit_status, use_ai>>
    /\ UNCHANGED auxVars

\* convert keeping no extracted JSON
ConvertExtracted_unsaved ==
    /\ cv_pc = "extract"
    /\ ex_pc \in {"returned", "raised"}
    /\ IF ex_pc = "raised"
       THEN /\ cv_pc' = "raised"
            /\ cv_raised' = ex_raised
       ELSE /\ cv_pc' = "analyze"
            /\ UNCHANGED cv_raised
    /\ UNCHANGED <<analyzerVars, extractorVars, files, translatorVars, language,
                   save_json, output_html, structured, html, exit_status, use_ai>>
    /\ UNCHANGED auxVars

\* lines 78-84: the extractor returned or raised; the extracted JSON is
\* written
ConvertExtracted ==
    /\ cv_pc = "extract"
    /\ ex_pc \in {"returned", "raised"}
    /\ IF ex_pc = "raised"
       THEN /\ cv_pc' = "raised"
            /\ cv_raised' = ex_raised
            /\ UNCHANGED files
       ELSE /\ cv_pc' = "analyze"
            /\ files' = IF save_json THEN Append(files, extract_path(output_html))
                        ELSE files
            /\ UNCHANGED cv_raised
    /\ UNCHANGED <<analyzerVars, extractorVars, translatorVars, language,
                   save_json, output_html, structured, html, exit_status, use_ai>>
    /\ UNCHANGED auxVars

\* line 86: structured = self.analyzer.analyze_catalog(extracted)
ConvertAnalyzed(r) ==
    /\ cv_pc' = IF r.exc = "" THEN "translate" ELSE "raised"
    /\ cv_raised' = r.exc
    /\ structured' = r.doc

ConvertAnalyze ==
    /\ cv_pc = "analyze"
    /\ \E a1 \in ConvertAnswers :
         /\ ~(ai_provider = "huggingface" /\ a1.kind = "timeout")
         /\ \E a2 \in (IF a1.kind = "timeout" THEN ConvertAnswers ELSE {a1}) :
               /\ Outcome(as_content(extracted), <<a1, a2>>,
                          analyze_catalog(self, as_content(extracted), <<a1, a2>>))
               /\ ConvertAnalyzed(
                      analyze_catalog(self, as_content(extracted), <<a1, a2>>))
    /\ UNCHANGED <<env, use_vision, ai_provider, parse_in, parse_out,
                   extractorVars, files, translatorVars, language, save_json,
                   output_html, html, exit_status, use_ai>>
    /\ UNCHANGED auxVars

\* lines 88-92: the translator, made for persian and chinese only, is called
ConvertTranslate ==
    /\ cv_pc = "translate"
    /\ IF language \in {"persian", "chinese"}
       THEN \E a \in ConvertTranslationAnswers :
               /\ TranslateOutcome(language, a,
                                   translate_to_language(structured, language, a))
               /\ tr_lang' = language
               /\ tr_in' = structured
               /\ structured' = translate_to_language(structured, language, a).doc
               /\ cv_raised' = translate_to_language(structured, language, a).exc
               /\ cv_pc' = IF translate_to_language(structured, language, a).exc = ""
                           THEN "write" ELSE "raised"
       ELSE /\ cv_pc' = "write"
            /\ UNCHANGED <<translatorVars, structured, cv_raised>>
    /\ UNCHANGED <<analyzerVars, extractorVars, files, language, save_json,
                   output_html, html, exit_status, use_ai>>
    /\ UNCHANGED auxVars

\* lines 94-98: the structured JSON is written
ConvertWrite ==
    /\ cv_pc = "write"
    /\ cv_pc' = "html"
    /\ files' = IF save_json THEN Append(files, struct_path(output_html))
                ELSE files
    /\ UNCHANGED <<analyzerVars, extractorVars, translatorVars, language,
                   save_json, output_html, structured, html, cv_raised,
                   exit_status, use_ai>>
    /\ UNCHANGED auxVars

\* lines 104-109: the HTML is rendered and written, convert returns
ConvertGenerate ==
    /\ cv_pc = "html"
    /\ IF render_raises(structured)
       THEN /\ cv_pc' = "raised"
            /\ cv_raised' = "TypeError"
            /\ UNCHANGED <<html, files>>
       ELSE /\ cv_pc' = "returned"
            /\ html' = render(structured)
            /\ files' = Append(files, output_html)
            /\ UNCHANGED cv_raised
    /\ UNCHANGED <<analyzerVars, extractorVars, translatorVars, language,
                   save_json, output_html, structured, exit_status, use_ai>>
    /\ UNCHANGED auxVars

\* main, lines 212-216: sys.exit(0) after convert returned, sys.exit(1)
\* after it raised
MainExit ==
    /\ cv_pc \in {"returned", "raised"}
    /\ cv_pc' = "exited"
    /\ exit_status' = IF cv_pc = "returned" THEN 0 ELSE 1
    /\ UNCHANGED <<analyzerVars, extractorVars, files, translatorVars, language,
                   save_json, output_html, structured, html, cv_raised, use_ai>>
    /\ UNCHANGED auxVars

\* a run of main: the arguments, the environment and the file are given
InitConvert ==
    /\ cv_pc = "new"
    /\ language \in Languages
    /\ save_json \in BOOLEAN
    /\ output_html = AutoOutput
    /\ structured = JNull
    /\ html = JNull
    /\ cv_raised = ""
    /\ exit_status = -1
    /\ use_ai = TRUE
    /\ pdf \in PdfsOf(TRUE)
    /\ ExtractorIdle
    /\ files = <<>>
    /\ TranslatorIdle
    /\ pc = "new"
    /\ env \in ConvertEnvs
    /\ use_vision \in BOOLEAN
    /\ ai_provider = None
    /\ Idle
    /\ parse_in = PyNone
    /\ parse_out = NoRun
    /\ AuxIdle

\* the -o/--output argument: absent, a name ending in .html, a name
\* without the suffix
OutputPaths == {AutoOutput, <<"product", ".html">>, <<"product">>}

\* a run of main under --no-ai or not, with or without --output
InitConvertArgs ==
    /\ cv_pc = "new"
    /\ language = "english"
    /\ save_json \in BOOLEAN
    /\ output_html \in OutputPaths
    /\ structured = JNull
    /\ html = JNull
    /\ cv_raised = ""
    /\ exit_status = -1
    /\ use_ai \in BOOLEAN
    /\ pdf \in PdfsOf(TRUE)
    /\ ExtractorIdle
    /\ files = <<>>
    /\ TranslatorIdle
    /\ pc = "new"
    /\ env \in ConvertEnvs
    /\ use_vision \in BOOLEAN
    /\ ai_provider = None
    /\ Idle
    /\ parse_in = PyNone
    /\ parse_out = NoRun
    /\ AuxIdle

NextConvert ==
    \/ MainConstruct
    \/ ConvertCheck
    \/ ExtractOpen
    \/ ExtractPage
    \/ ExtractReturn
    \/ ConvertExtracted
    \/ ConvertAnalyze
    \/ ConvertTranslate
    \/ ConvertWrite
    \/ ConvertGenerate
    \/ MainExit

SpecConvert == InitConvert /\ [][NextConvert]_vars

SpecConvertArgs == InitConvertArgs /\ [][NextConvert]_vars

-----------------------------------------------------------------------------
(* Two invocations of convert side by side, each on a PDF of its own and   *)
(* with an output path of its own, in one working directory.  The pages    *)
(* render, save_json is set, the analyzer sends a vision request.          *)

Invocations == {1, 2}

InvocationOutput(p) == <<"product", ToString(p), ".html">>

ImagePaths == { FullPageImage(n).path : n \in 1..MaxPdfPages }

NoRender == [pdf |-> 0, page |-> 0]

\* a page whose passes all succeed
RenderedReading ==
    [text_plumber |-> Reading(<<"a", "b">>), text_pymupdf |-> Reading(<<"c">>),
     tables |-> ReadNone, render |-> TRUE, geometry |-> "ok"]

\* convert entered on a PDF of n pages, the extractor at its loop
Invocation(n) ==
    [pc |-> "extract", pages |-> n, page_num |-> 0,
     extracted |-> [total_pages |-> n, pages |-> <<>>],
     sent |-> <<>>, wrote |-> <<>>]

\* one turn of the extraction loop: pix.save(img_path) writes the render
\* to output/images/page_<n>_full.png, whatever the PDF
RunExtractPage(p) ==
    /\ procs[p].pc = "extract"
    /\ procs[p].page_num < procs[p].pages
    /\ procs' = [procs EXCEPT
                   ![p].extracted.pages =
                       Append(@, _extract_page_multimethod(RenderedReading,
                                                           procs[p].page_num)),
                   ![p].page_num = @ + 1,
                   ![p].wrote = Append(@, FullPageImage(procs[p].page_num + 1).path)]
    /\ disk' = [disk EXCEPT ![FullPageImage(procs[p].page_num + 1).path] =
                                [pdf |-> p, page |-> procs[p].page_num + 1]]
    /\ UNCHANGED <<analyzerVars, stageVars, earlier>>

\* the extractor returns; the extracted JSON is written
RunSaveExtracted(p) ==
    /\ procs[p].pc = "extract"
    /\ procs[p].page_num = procs[p].pages
    /\ procs' = [procs EXCEPT
                   ![p].pc = "analyze",
                   ![p].wrote = Append(@, extract_path(InvocationOutput(p)))]
    /\ UNCHANGED <<analyzerVars, stageVars, earlier, disk>>

\* what the files at the paths hold when the request is built
RECURSIVE read_images(_, _, _)
read_images(paths, d, i) ==
    IF i > Len(paths) THEN <<>>
    ELSE <<d[paths[i]]>> \o read_images(paths, d, i + 1)

\* the vision request: the image files named by the document are opened
\* and read as the request is built
RunAnalyze(p) ==
    /\ procs[p].pc = "analyze"
    /\ procs' = [procs EXCEPT
                   ![p].pc = "write",
                   ![p].sent = read_images(
                                  images_sent(as_content(procs[p].extracted)),
                                  disk, 1)]
    /\ UNCHANGED <<analyzerVars, stageVars, earlier, disk>>

\* the structured JSON is written
RunWrite(p) ==
    /\ procs[p].pc = "write"
    /\ procs' = [procs EXCEPT
                   ![p].pc = "html",
                   ![p].wrote = Append(@, struct_path(InvocationOutput(p)))]
    /\ UNCHANGED <<analyzerVars, stageVars, earlier, disk>>

\* the HTML is written, convert returns
RunGenerate(p) ==
    /\ procs[p].pc = "html"
    /\ procs' = [procs EXCEPT
                   ![p].pc = "returned",
                   ![p].wrote = Append(@, InvocationOutput(p))]
    /\ UNCHANGED <<analyzerVars, stageVars, earlier, disk>>

InitTwo ==
    /\ procs \in [Invocations -> { Invocation(n) : n \in 1..MaxPdfPages }]
    /\ disk = [path \in ImagePaths |-> NoRender]
    /\ earlier = NoCall
    /\ pc = "new"
    /\ env = [name \in EnvNames |-> <<>>]
    /\ use_vision = TRUE
    /\ ai_provider = None
    /\ Idle
    /\ parse_in = PyNone
    /\ parse_out = NoRun
    /\ StagesIdle

NextTwo ==
    \/ \E p \in Invocations : RunExtractPage(p)
    \/ \E p \in Invocations : RunSaveExtracted(p)
    \/ \E p \in Invocations : RunAnalyze(p)
    \/ \E p \in Invocations : RunWrite(p)
    \/ \E p \in Invocations : RunGenerate(p)

SpecTwo == InitTwo /\ [][NextTwo]_vars

\* provider selection alone, over every environment
InitDetect ==
    /\ pc = "new"
    /\ env \in AllEnvs
    /\ use_vision = TRUE
    /\ ai_provider = None
    /\ Idle
    /\ parse_in = PyNone
    /\ parse_out = NoRun
    /\ StagesIdle
    /\ AuxIdle

NextDetect == Construct

SpecDetect == InitDetect /\ [][NextDetect]_vars

\* the vision paths alone, over the documents of the vision runs: one
\* credential, of a provider with a vision method
VisionEnvs ==
    { [name \in EnvNames |-> IF name = only THEN GoodKey(name) ELSE <<>>] :
        only \in {"OPENAI_API_KEY", "ANTHROPIC_API_KEY", "GOOGLE_API_KEY"} }

InitVision ==
    /\ pc = "new"
    /\ env \in VisionEnvs
    /\ use_vision = TRUE
    /\ ai_provider = None
    /\ Idle
    /\ parse_in = PyNone
    /\ parse_out = NoRun
    /\ StagesIdle
    /\ AuxIdle

AnalyzeVision ==
    /\ pc = "ready"
    /\ \E c \in VisionContents :
         LET a == Answer("ok", ObjText) IN
         Outcome(c, <<a, a>>, analyze_catalog(self, c, <<a, a>>))
    /\ UNCHANGED <<env, use_vision, ai_provider, parse_in, parse_out, stageVars>>
    /\ UNCHANGED auxVars

NextVision == Construct \/ AnalyzeVision

SpecVision == InitVision /\ [][NextVision]_vars

\* extract_complete_content alone, over the files
InitExtract ==
    /\ pdf \in Pdfs
    /\ ex_pc = "called"
    /\ total_pages = 0
    /\ page_num = 0
    /\ extracted = NoContent
    /\ readings = NoReadings
    /\ ex_raised = ""
    /\ files = <<>>
    /\ TranslatorIdle
    /\ ConverterIdle
    /\ pc = "new"
    /\ env = [name \in EnvNames |-> <<>>]
    /\ use_vision = TRUE
    /\ ai_provider = None
    /\ Idle
    /\ parse_in = PyNone
    /\ parse_out = NoRun
    /\ AuxIdle

NextExtract == ExtractOpen \/ ExtractPage \/ ExtractReturn

SpecExtract == InitExtract /\ [][NextExtract]_vars

\* translate_to_language alone, over the documents, the languages and the
\* answers
InitTranslate ==
    /\ tr_pc = "called"
    /\ tr_lang \in Languages
    /\ tr_in \in TranslateDocs
    /\ tr_data = tr_in
    /\ tr_net = <<>>
    /\ tr_out = JNull
    /\ tr_raised = ""
    /\ pdf = NoPdf
    /\ ExtractorIdle
    /\ files = <<>>
    /\ ConverterIdle
    /\ pc = "new"
    /\ env = [name \in EnvNames |-> <<>>]
    /\ use_vision = TRUE
    /\ ai_provider = None
    /\ Idle
    /\ parse_in = PyNone
    /\ parse_out = NoRun
    /\ AuxIdle

NextTranslate == Translate

SpecTranslate == InitTranslate /\ [][NextTranslate]_vars

\* _parse_ai_response alone, over the parser inputs
InitParse ==
    /\ pc = "parse"
    /\ parse_in \in ParseInputs
    /\ parse_out = NoRun
    /\ env = [name \in EnvNames |-> <<>>]
    /\ use_vision = TRUE
    /\ ai_provider = None
    /\ Idle
    /\ StagesIdle
    /\ AuxIdle

ParseResponse ==
    /\ pc = "parse"
    /\ parse_out' = parse_ai_response_run(parse_in)
    /\ pc' = "parsed"
    /\ UNCHANGED <<env, use_vision, ai_provider, content, net, requests,
                   result, raised, parse_in, stageVars>>
    /\ UNCHANGED auxVars

NextParse == ParseResponse

SpecParse == InitParse /\ [][NextParse]_vars

-----------------------------------------------------------------------------
(* Properties *)

Finished == pc \in {"returned", "raised"}

\* the answer the last request of the finished call got
LastAnswer == net[Len(net)]

Category(d) == Get(d, "category", JNull)
Products(d) == Get(d, "products", JNull)

\* C1: with no provider selected, analyze_catalog returns the sentinel
\* document: category "Please Add API Key" and exactly one product, whose
\* model is "N/A".
C1_NoProviderReturnsSentinel ==
    (Finished /\ ai_provider = None) =>
        /\ raised = ""
        /\ Category(result) = W("Please Add API Key")
        /\ Products(result).t = "arr"
        /\ Len(Products(result).vals) = 1
        /\ Get(Products(result).vals[1], "model", JNull) = W("N/A")

\* C2: analyze_catalog never lets an exception escape: whatever the provider
\* and whatever the network answers, it returns a structured document.
C2_NeverRaises ==
    Finished => (raised = "" /\ pc = "returned" /\ result.t = "obj")

\* C3: provider selection returns the first provider, in the order DeepSeek,
\* Anthropic, HuggingFace, Google, OpenAI, whose stripped credential passes
\* its shape check, and None exactly when no credential passes.
Priority == <<"deepseek", "anthropic", "huggingface", "google", "openai">>

CredentialOf(p) ==
    CASE p = "deepseek"    -> "DEEPSEEK_API_KEY"
      [] p = "anthropic"   -> "ANTHROPIC_API_KEY"
      [] p = "huggingface" -> "HUGGINGFACE_API_KEY"
      [] p = "google"      -> "GOOGLE_API_KEY"
      [] p = "openai"      -> "OPENAI_API_KEY"

ShapeOK(p, key) ==
    CASE p = "deepseek"    -> startswith(key, PREFIX_SK)
      [] p = "anthropic"   -> startswith(key, PREFIX_ANT)
      [] p = "huggingface" -> startswith(key, PREFIX_HF) \/ Len(key) > MinKeyLen
      [] p = "google"      -> Len(key) > MinKeyLen
      [] p = "openai"      -> startswith(key, PREFIX_SK) /\ Len(key) > MinKeyLen

Passing(e) ==
    { i \in 1..Len(Priority) : ShapeOK(Priority[i], strip(e[CredentialOf(Priority[i])])) }

C3_SelectionByPriority ==
    pc = "ready" =>
        /\ (Passing(env) = {} <=> ai_provider = None)
        /\ Passing(env) # {} =>
              /\ ai_provider \in Providers
              /\ \E i \in Passing(env) :
                    /\ ai_provider = Priority[i]
                    /\ \A j \in Passing(env) : i <= j

\* a construction with three passing credentials, the first of them Anthropic's
C3_Witness ==
    /\ pc = "ready"
    /\ Cardinality(Passing(env)) >= 3
    /\ ai_provider = "anthropic"

\* C4: the not-configured sentinel is returned only without credentials: when
\* a provider is selected and its call fails (timeout, transport error,
\* non-success status, unexpected envelope), the document returned is not
\* the sentinel.
C4_SentinelOnlyWithoutCredentials ==
    (/\ pc = "returned"
     /\ ai_provider # None
     /\ Len(net) >= 1
     /\ LastAnswer.kind \in {"timeout", "transport", "http_error", "bad_envelope"})
    => (result # _no_ai_configured
        /\ Category(result) # W("Please Add API Key"))

\* C5: on every provider path, a completion that is not valid JSON even after
\* fence stripping and trailing-comma repair makes analyze_catalog return
\* the "Extraction Error" / "AI Response Invalid" document with empty company
\* and no products, without raising.
Repaired(t) == re_sub_trailing(re_sub_trailing(strip(t), RBRACE), RBRACK)

NoJson(t) == ~json_loads(strip(t)).ok /\ ~json_loads(Repaired(t)).ok

InvalidCompletion(t) == NoJson(t) /\ NoJson(deepseek_strip_fence(t))

C5_InvalidCompletionYieldsExtractionError ==
    (/\ Finished
     /\ ai_provider # None
     /\ Len(net) >= 1
     /\ LastAnswer.kind = "ok"
     /\ InvalidCompletion(LastAnswer.text))
    => /\ raised = ""
       /\ Get(result, "product_family", JNull) = W("Extraction Error")
       /\ Category(result) = W("AI Response Invalid")
       /\ Get(result, "company", JNull) = EmptyDict
       /\ Products(result) = EmptyList

\* C6: on the DeepSeek path, the three vision paths and the text-only
\* Anthropic/OpenAI path, a completion wrapped in a fence, with or without
\* the language tag, is parsed without the fence: the document returned is
\* the JSON object inside.
Wrapped(t) ==
    LET u == strip(t) IN
    /\ Len(u) >= 2
    /\ u[1] = FENCE
    /\ u[Len(u)] = FENCE
    /\ \A i \in 2..(Len(u) - 1) : u[i] # FENCE

Interior(t) ==
    LET u == strip(t) IN
    strip(SubSeq(u, IF Len(u) >= 3 /\ u[2] = LANG THEN 3 ELSE 2, Len(u) - 1))

C6_FenceStrippedOnEveryPath ==
    (/\ Finished
     /\ Len(net) >= 1
     /\ requests[Len(requests)].provider # "huggingface"
     /\ LastAnswer.kind = "ok"
     /\ Wrapped(LastAnswer.text)
     /\ json_loads(Interior(LastAnswer.text)).ok
     /\ json_loads(Interior(LastAnswer.text)).val.t = "obj")
    => (raised = "" /\ result = json_loads(Interior(LastAnswer.text)).val)

\* C7: _parse_ai_response parses strictly first; only when that fails it
\* removes the trailing commas before closing braces and brackets and parses
\* once more; a text that is valid JSON but for such trailing commas yields
\* the document it denotes.
\* The text without its trailing commas: the commas outside string literals
\* that only whitespace separates from a closing brace or bracket.
RECURSIVE WithoutTrailingCommas(_, _, _)
WithoutTrailingCommas(t, i, inString) ==
    IF i > Len(t) THEN <<>>
    ELSE IF t[i] = QUOTE
    THEN <<t[i]>> \o WithoutTrailingCommas(t, i + 1, ~inString)
    ELSE IF /\ ~inString
            /\ t[i] = COMMA
            /\ SkipWs(t, i + 1) <= Len(t)
            /\ t[SkipWs(t, i + 1)] \in {RBRACE, RBRACK}
    THEN WithoutTrailingCommas(t, i + 1, inString)
    ELSE <<t[i]>> \o WithoutTrailingCommas(t, i + 1, inString)

Intended(t) == json_loads(WithoutTrailingCommas(strip(t), 1, FALSE))

C7_StrictThenOneRepair ==
    (pc = "parsed" /\ ~parse_in.none) =>
        LET strict == json_loads(strip(parse_in.s)) IN
        /\ strict.ok =>
              parse_out = [doc |-> strict.val, loads |-> 1, repaired |-> FALSE]
        /\ ~strict.ok => (parse_out.loads = 2 /\ parse_out.repaired)
        /\ (~strict.ok /\ Intended(parse_in.s).ok) =>
              parse_out.doc = Intended(parse_in.s).val

\* C8: a timeout of the first attempt of a provider call triggers exactly one
\* retry, whose text budget is half the first one's, and no call sends more
\* than two requests.
C8_TimeoutRetriedOnceWithHalfBudget ==
    Finished =>
        /\ Len(requests) <= 2
        /\ (Len(net) >= 1 /\ net[1].kind = "timeout") =>
              /\ Len(requests) = 2
              /\ requests[2].provider = requests[1].provider
              /\ 2 * requests[2].budget = requests[1].budget

\* C9: a provider call that fails otherwise than by a timeout (transport
\* error, non-success status) is not retried, one request is sent, and the
\* structurer turns the failure into the next fallback tier: a document is
\* returned.
C9_OtherFailureNotRetried ==
    (/\ Finished
     /\ Len(net) >= 1
     /\ net[1].kind \in {"transport", "http_error"})
    => (Len(requests) = 1 /\ raised = "" /\ result.t = "obj")

\* C10: with vision enabled and Anthropic or OpenAI selected, a failed vision
\* call is followed by the same provider's text-only call; the rule-based
\* fallback comes only after that one failed too.
C10_VisionThenText ==
    (/\ Finished
     /\ use_vision
     /\ ai_provider \in {"anthropic", "openai"}
     /\ Len(net) >= 1
     /\ net[1].kind \in {"timeout", "transport", "http_error", "not_json_body",
                         "bad_envelope"})
    => /\ Len(requests) >= 2
       /\ requests[1].mode = "vision"
       /\ requests[2].mode = "text"
       /\ requests[2].provider = ai_provider

\* C11: with vision disabled and a provider selected, whichever of the five,
\* analyze_catalog sends a text-only completion request to that provider
\* before it returns or raises anything.
C11_TextOnlyRequestSent ==
    (Finished /\ ~use_vision /\ ai_provider # None) =>
        /\ Len(requests) >= 1
        /\ requests[1].provider = ai_provider
        /\ requests[1].mode = "text"
        /\ requests[1].images = <<>>

\* C12: every product of a document analyze_catalog returns, the
\* not-configured sentinel apart, is a product of the parsed completion of
\* the provider: no path returns a product with a fixed placeholder name and
\* model.
ProductsOf(d) ==
    IF Products(d).t = "arr"
    THEN { Products(d).vals[k] : k \in 1..Len(Products(d).vals) }
    ELSE {}

\* the products of the completion as the parser reads it, with or without
\* the fence around it
CompletionProducts(a) ==
    IF a.kind # "ok" THEN {}
    ELSE ProductsOf(_parse_ai_response(PyStr(a.text)))
         \cup ProductsOf(_parse_ai_response(PyStr(deepseek_strip_fence(a.text))))

C12_ProductsFromCompletion ==
    (pc = "returned" /\ result # _no_ai_configured) =>
        /\ Len(net) >= 1
        /\ ProductsOf(result) \subseteq CompletionProducts(LastAnswer)

\* C13: a vision request carries at most MaxImages images; each is a
\* full-page render of one of the first ScanPages pages of the document, at
\* most one per page, in increasing page order, whatever the number of pages
\* and of images per page.
IsRenderOf(path, page) ==
    \E m \in 1..Len(page.images) :
        /\ page.images[m].type = "full_page"
        /\ page.images[m].exists
        /\ page.images[m].path = path

\* a strictly increasing choice of pages among the first ScanPages, one for
\* each image
OnePerPageInOrder(imgs, pages) ==
    \E f \in [1..Len(imgs) -> 1..Min(Len(pages), ScanPages)] :
        /\ \A k \in 1..(Len(imgs) - 1) : f[k] < f[k + 1]
        /\ \A k \in 1..Len(imgs) : IsRenderOf(imgs[k], pages[f[k]])

C13_VisionImages ==
    \A i \in 1..Len(requests) :
        requests[i].mode = "vision" =>
            /\ Len(requests[i].images) <= MaxImages
            /\ OnePerPageInOrder(requests[i].images, content.pages)

\* a document of more than ScanPages pages, each with a render, whose request
\* was cut to MaxImages images
C13_Witness ==
    /\ pc = "returned"
    /\ Len(content.pages) > ScanPages
    /\ \A n \in 1..Len(content.pages) :
          IsRenderOf(FullPageImage(n).path, content.pages[n])
    /\ Len(requests) = 1
    /\ requests[1].mode = "vision"
    /\ Len(requests[1].images) = MaxImages

ExtractFinished == ex_pc \in {"returned", "raised"}

PageNumbers(pages) == [n \in 1..Len(pages) |-> pages[n].page_number]

\* C14: for every file of N pages that opens, extract_complete_content
\* returns a pages sequence of length N whose page_number values are 1..N in
\* order, and metadata.total_pages is N.
C14_PagesNumberedInOrder ==
    (ExtractFinished /\ pdf.opens) =>
        /\ ex_pc = "returned"
        /\ Len(extracted.pages) = pdf.pages
        /\ PageNumbers(extracted.pages) = [n \in 1..pdf.pages |-> n]
        /\ extracted.total_pages = pdf.pages

\* C15: a failure while a single page is extracted (a text pass, the table
\* pass, the render, the layout or the text blocks raising) never fails the
\* document: the page is emitted all the same, with empty defaults for what
\* failed, and the pages after it are processed.
PartFailed(rd) ==
    page_raises(rd) \/ ~rd.render \/ rd.geometry # "ok"

C15_PageFailureAbsorbed ==
    /\ (ExtractFinished /\ pdf.opens) =>
          (ex_pc = "returned" /\ Len(extracted.pages) = pdf.pages)
    /\ (ex_pc \in {"loop", "returned"} /\ page_num >= 1 /\ PartFailed(readings)) =>
          LET page == extracted.pages[page_num] IN
          /\ ~readings.render => page.images = <<>>
          /\ readings.geometry = "layout_fails" => page.layout = "error"
          /\ readings.geometry = "blocks_fail" => page.text_blocks = <<>>
          /\ page.has_content <=>
                (Len(page.text) > 0 \/ Len(page.tables) > 0 \/ Len(page.images) > 0)

\* C16: for every emitted page, has_content is true exactly when its text,
\* its tables or its images are non-empty.
C16_HasContent ==
    \A n \in 1..Len(extracted.pages) :
        LET page == extracted.pages[n] IN
        page.has_content <=>
            (Len(page.text) > 0 \/ Len(page.tables) > 0 \/ Len(page.images) > 0)

\* an emitted page whose only content is its render
C16_Witness ==
    /\ ex_pc = "returned"
    /\ \E n \in 1..Len(extracted.pages) :
          /\ extracted.pages[n].text = <<>>
          /\ extracted.pages[n].tables = <<>>
          /\ extracted.pages[n].images # <<>>
          /\ extracted.pages[n].has_content
    /\ \E n \in 1..Len(extracted.pages) : ~extracted.pages[n].has_content

\* C17: the emitted text of a page is the result of one of the two text
\* passes, and its length is the greater of the two passes' lengths, a
\* missing result counting as the empty string.
Max(a, b) == IF a > b THEN a ELSE b

C17_LongerTextWins ==
    (ex_pc \in {"loop", "returned"} /\ page_num >= 1) =>
        LET text == extracted.pages[page_num].text
            plumber == or_empty(readings.text_plumber)
            pymupdf == or_empty(readings.text_pymupdf)
        IN  /\ text \in {plumber, pymupdf}
            /\ Len(text) = Max(Len(plumber), Len(pymupdf))

\* a page whose stream pass gave the shorter text, and the layout-aware text
\* was emitted
C17_Witness ==
    /\ ex_pc = "loop"
    /\ page_num >= 1
    /\ Len(or_empty(readings.text_plumber)) > Len(or_empty(readings.text_pymupdf))
    /\ Len(or_empty(readings.text_pymupdf)) > 0
    /\ extracted.pages[page_num].text = or_empty(readings.text_plumber)

\* C20: translate_to_language never raises for persian or chinese: on any
\* failure (transport error, timeout, non-success status, unexpected
\* envelope, unparsable or non-object completion) it returns the document
\* it was given, untranslated, with _language and _rtl set for the language:
\* fa and true for Persian, zh and false for Chinese.
IsObjectText(t) == json_loads(t).ok /\ json_loads(t).val.t = "obj"

\* the answer is a failure: no completion, or a completion that is no JSON
\* object, with its fence or without
TranslationFailure(a) ==
    \/ a.kind # "ok"
    \/ /\ ~IsObjectText(a.text)
       /\ ~IsObjectText(translator_strip_fence(strip(a.text)))
       /\ ~IsObjectText(deepseek_strip_fence(strip(a.text)))

ExpectedTags(d, lang) ==
    /\ Get(d, "_language", JNull) = W(IF lang = "persian" THEN "fa" ELSE "zh")
    /\ Get(d, "_rtl", JNull) = JBool(lang = "persian")

WithoutTags(d) ==
    { <<d.keys[i], d.vals[i]>> :
        i \in { j \in 1..Len(d.keys) : d.keys[j] \notin {<<"_language">>, <<"_rtl">>} } }

C20_TranslatorNeverRaises ==
    (tr_pc \in {"returned", "raised"} /\ tr_lang \in {"persian", "chinese"}) =>
        /\ tr_pc = "returned"
        /\ tr_raised = ""
        /\ tr_out.t = "obj"
        /\ (Len(tr_net) = 1 /\ TranslationFailure(tr_net[1])) =>
              /\ WithoutTags(tr_out) = WithoutTags(tr_in)
              /\ ExpectedTags(tr_out, tr_lang)

\* a Chinese translation whose completion was an array: the document given
\* came back with zh and false
C20_Witness ==
    /\ tr_pc = "returned"
    /\ tr_lang = "chinese"
    /\ tr_net = <<Answer("ok", <<LBRACK, RBRACK>>)>>
    /\ tr_in = _no_ai_configured
    /\ WithoutTags(tr_out) = WithoutTags(tr_in)
    /\ ExpectedTags(tr_out, "chinese")

\* C18: convert on a path that does not exist fails with the not-found
\* error before extraction starts: no provider request is made and no file
\* (extracted JSON, structured JSON, HTML, page image) is written.
C18_MissingInputFailsFirst ==
    (~pdf.exists /\ cv_pc \in {"extract", "analyze", "translate", "write", "html",
                               "returned", "raised", "exited"}) =>
        /\ cv_pc \in {"raised", "exited"}
        /\ cv_raised = "FileNotFoundError"
        /\ ex_pc = "idle"
        /\ requests = <<>>
        /\ tr_net = <<>>
        /\ files = <<>>
        /\ exit_status \in {-1, 1}

\* main has exited with status 1 on a missing file, a credential being set
C18_Witness ==
    /\ ~pdf.exists
    /\ cv_pc = "exited"
    /\ exit_status = 1
    /\ cv_raised = "FileNotFoundError"
    /\ ai_provider = "deepseek"
    /\ save_json
    /\ files = <<>>

\* C19: main fails only for a missing input file or an unreadable PDF: for
\* every readable PDF and every provider condition (no credentials, provider
\* failure, invalid completion, translation failure) an HTML file is written
\* and the exit status is 0; with no credentials the HTML shows the fixed
\* description text of the sentinel product.
Written(path) == \E i \in 1..Len(files) : files[i] = path

SentinelDescription ==
    Get(Products(_no_ai_configured).vals[1], "description", JNull)

ShowsDescription(page, description) ==
    /\ Products(page).t = "arr"
    /\ \E k \in 1..Len(Products(page).vals) :
          Get(Products(page).vals[k], "description", JNull) = description

\* the file is there, opens, and all its pages were read
Readable == pdf.exists /\ pdf.opens /\ ex_pc = "returned"

C19_OnlyInputFailuresAreFatal ==
    (cv_pc = "exited" /\ Readable) =>
        /\ exit_status = 0
        /\ Written(output_html)
        /\ ai_provider = None => ShowsDescription(html, SentinelDescription)

\* C21: for every structured document and every provider response, success
\* or failure, the top-level keys of the document translate_to_language
\* returns are the top-level keys of the document given plus _language and
\* _rtl.
KeySet(d) == { d.keys[i] : i \in 1..Len(d.keys) }

C21_TranslationKeepsKeys ==
    (tr_pc = "returned" /\ tr_lang \in {"persian", "chinese"}) =>
        KeySet(tr_out) = KeySet(tr_in) \cup {<<"_language">>, <<"_rtl">>}

\* C22: translate_to_language leaves the document it was given unchanged, on
\* the success and on the failure path: no key is added to, removed from or
\* rewritten in the caller's object; analyze_catalog leaves the intermediate
\* document unchanged.
C22_DocumentsPassedByValue ==
    /\ tr_pc \in {"returned", "raised"} => tr_data = tr_in
    /\ (Finished /\ cv_pc = "translate") => content = as_content(extracted)

\* C23: the translator parses the response as the structurer does: fence
\* stripped, strict parse, then trailing-comma repair and one more parse; a
\* translated completion that is valid JSON but for a trailing comma before
\* a closing brace or bracket yields the translated document, not the
\* untranslated original.
C23_TranslatorRepairsTrailingComma ==
    (/\ tr_pc = "returned"
     /\ tr_lang \in {"persian", "chinese"}
     /\ Len(tr_net) = 1
     /\ tr_net[1].kind = "ok"
     /\ ~json_loads(strip(tr_net[1].text)).ok
     /\ Intended(tr_net[1].text).ok
     /\ Intended(tr_net[1].text).val.t = "obj")
    => tr_out = tagged(Intended(tr_net[1].text).val, tr_lang)

\* C28: when the trailing-comma repair of _parse_ai_response leads to a
\* successful parse, the document returned is the one the text denotes with
\* its structural trailing commas removed: no string value is altered by the
\* repair.
RECURSIVE StringsOf(_)
StringsOf(v) ==
    IF v.t = "str" THEN {v.s}
    ELSE IF v.t \in {"arr", "obj"}
    THEN UNION { StringsOf(v.vals[i]) : i \in 1..Len(v.vals) }
    ELSE {}

\* the string literals of a text, read from its i-th symbol on
RECURSIVE LiteralsOf(_, _)
LiteralsOf(t, i) ==
    IF i > Len(t) THEN {}
    ELSE IF t[i] = QUOTE /\ ParseString(t, i).ok
    THEN {ParseString(t, i).val.s} \cup LiteralsOf(t, ParseString(t, i).pos)
    ELSE LiteralsOf(t, i + 1)

C28_RepairLeavesStringsAlone ==
    (/\ pc = "parsed"
     /\ ~parse_in.none
     /\ parse_out.repaired
     /\ json_loads(Repaired(parse_in.s)).ok)
    => /\ Intended(parse_in.s).ok
       /\ parse_out.doc = Intended(parse_in.s).val
       /\ StringsOf(parse_out.doc) \subseteq LiteralsOf(strip(parse_in.s), 1)

\* C30: convert runs its steps in one order: the pages are extracted and
\* their images written, then the extracted JSON, then the structuring,
\* then the translation, then the structured JSON, which holds the document
\* as the translation left it, then the HTML.  When the structuring or the
\* translation raised, neither the HTML nor the structured JSON is written
\* while the extracted JSON, if enabled, is there; with save_json disabled
\* no JSON file is written at all.
Position(path) ==
    IF Written(path)
    THEN CHOOSE i \in 1..Len(files) : files[i] = path
    ELSE 0

IsPageImage(path) == \E n \in 1..MaxPdfPages : path = FullPageImage(n).path

StructuringRaised == cv_pc \in {"raised", "exited"} /\ pc = "raised"
TranslationRaised == cv_pc \in {"raised", "exited"} /\ tr_pc = "raised"

ConvertReturned ==
    cv_pc = "returned" \/ (cv_pc = "exited" /\ exit_status = 0)

C30_StepsInOrder ==
    /\ \A i \in 1..Len(files) :
          \/ IsPageImage(files[i]) /\ (i > 1 => IsPageImage(files[i - 1]))
          \/ /\ files[i] = extract_path(output_html)
             /\ ex_pc = "returned"
             /\ \A j \in 1..(i - 1) : IsPageImage(files[j])
          \/ /\ files[i] = struct_path(output_html)
             /\ files[i - 1] = extract_path(output_html)
             /\ pc = "returned"
             /\ language \in {"persian", "chinese"} => tr_pc = "returned"
             /\ structured = IF language \in {"persian", "chinese"}
                             THEN tr_out ELSE result
          \/ /\ files[i] = output_html
             /\ i = Len(files)
             /\ cv_pc \in {"returned", "exited"}
             /\ save_json => files[i - 1] = struct_path(output_html)
    /\ (StructuringRaised \/ TranslationRaised) =>
          /\ ~Written(output_html)
          /\ ~Written(struct_path(output_html))
          /\ save_json => Written(extract_path(output_html))
    /\ ~save_json =>
          /\ ~Written(extract_path(output_html))
          /\ ~Written(struct_path(output_html))
    /\ ConvertReturned =>
          /\ Written(output_html)
          /\ save_json => 0 < Position(extract_path(output_html))
                          /\ Position(extract_path(output_html))
                               < Position(struct_path(output_html))
                          /\ Position(struct_path(output_html))
                               < Position(output_html)

C30_Witness ==
    /\ StructuringRaised
    /\ save_json
    /\ Len(files) >= 2
    /\ IsPageImage(files[1])
    /\ files[Len(files)] = extract_path(output_html)

\* C27: with --no-ai, that is use_ai false, convert sends no request to any
\* provider, whatever credentials are set, and structures the document by
\* rules only: the structuring step does not fail.
C27_NoAiSendsNothing ==
    ~use_ai => /\ requests = <<>>
               /\ tr_net = <<>>
               /\ ~StructuringRaised

\* C29: for every output_html, automatic or given, with or without the
\* .html suffix, the paths of the HTML, of the extracted JSON and of the
\* structured JSON are pairwise distinct; after a convert that returned with
\* save_json set all three files are there and none was written twice.
C29_ArtifactPathsDistinct ==
    (ConvertReturned /\ save_json) =>
        /\ output_html # extract_path(output_html)
        /\ output_html # struct_path(output_html)
        /\ extract_path(output_html) # struct_path(output_html)
        /\ Written(output_html)
        /\ Written(extract_path(output_html))
        /\ Written(struct_path(output_html))
        /\ \A i, j \in 1..Len(files) : files[i] = files[j] => i = j

\* C24: two analyze_catalog calls of one analyzer on identical intermediate
\* documents, under identical credentials and a stub that answers identical
\* requests identically, send the same requests and end alike, with the
\* same document or the same exception, whatever calls were made in between.
StubAnswersAlike ==
    \A i \in 1..Min(Len(requests), Len(earlier.requests)) :
        requests[i] = earlier.requests[i] => net[i] = earlier.net[i]

SameInputs ==
    /\ Finished
    /\ earlier.made
    /\ earlier.env = env
    /\ earlier.content = content
    /\ StubAnswersAlike

C24_CallsAreIndependent ==
    SameInputs => /\ requests = earlier.requests
                  /\ result = earlier.result
                  /\ raised = earlier.raised

C24_Witness ==
    /\ SameInputs
    /\ earlier.between
    /\ requests # <<>>
    /\ result # JNull
    /\ Len(content.pages) > 0

\* C26: ai_provider is chosen at construction and never again: whatever
\* calls are made, failing ones included, and however the credentials
\* change in between, it keeps its value and every request of the analyzer
\* goes to that provider.
C26_ProviderFixedAtConstruction ==
    [][/\ pc # "new" => ai_provider' = ai_provider
       /\ \A i \in 1..Len(requests') : requests'[i].provider = ai_provider']_vars

C26_Witness ==
    /\ Finished
    /\ requests # <<>>
    /\ earlier.made
    /\ earlier.raised # ""
    /\ _detect_available_ai(env) # ai_provider
    /\ _detect_available_ai(env) # None

\* C25: two convert invocations on different PDFs with distinct output
\* paths, however their steps interleave, do not interfere: no file is
\* written by both, and the images each invocation sends to its provider
\* are the renders of the pages of its own PDF.
NoFileWrittenByBoth ==
    \A p \in DOMAIN procs, q \in DOMAIN procs :
        p # q =>
          \A i \in 1..Len(procs[p].wrote), j \in 1..Len(procs[q].wrote) :
              procs[p].wrote[i] # procs[q].wrote[j]

OwnRendersSent ==
    \A p \in DOMAIN procs :
        \A i \in 1..Len(procs[p].sent) : procs[p].sent[i].pdf = p

C25_InvocationsDoNotInterfere == NoFileWrittenByBoth /\ OwnRendersSent

====
